---- MODULE Spec2Model ----
(***************************************************************************)
(* A model of pants/solver.py: the ant colony Solver (solve, solutions,    *)
(* colony construction, find_solutions, update_scent, get_best_ant,        *)
(* trace_elite).  Pheromone levels are exact rationals <<num, den>>.  The  *)
(* World and the Ant are collaborators whose code is not in solver.py;     *)
(* their definitions follow the written contract (spec.md 4.2, 4.3).       *)
(***************************************************************************)
EXTENDS Integers, Sequences, FiniteSets, TLC

\* ------------------------------------------------------------------ bounds
MaxLimit == 2
MaxAntCount == 2
MaxResets == 2
MaxColony == 4

\* ------------------------------------------------------- exact rationals
RECURSIVE GCD(_, _)
GCD(a, b) == IF b = 0 THEN a ELSE GCD(b, a % b)

Abs(x) == IF x < 0 THEN -x ELSE x

Norm(n, d) ==
    LET g == GCD(Abs(n), d)
    IN  <<n \div g, d \div g>>

RAdd(x, y) ==
    LET g == GCD(x[2], y[2])
        l == (x[2] \div g) * y[2]
    IN  Norm(x[1] * (l \div x[2]) + y[1] * (l \div y[2]), l)

RMul(x, y) ==
    LET g1 == GCD(Abs(x[1]), y[2])
        g2 == GCD(Abs(y[1]), x[2])
    IN  Norm((x[1] \div g1) * (y[1] \div g2), (x[2] \div g2) * (y[2] \div g1))

RSub(x, y) == RAdd(x, <<-y[1], y[2]>>)

RLt(x, y) == RSub(x, y)[1] < 0
RLe(x, y) == RSub(x, y)[1] <= 0

RMax(x, y) == IF RLt(x, y) THEN y ELSE x

RInt(k) == <<k, 1>>
ROne == RInt(1)

\* ------------------------------------------------------------- the world
\* An edge is the unordered pair of its end nodes.
Edge(a, b) == {a, b}

Complete(n) == {Edge(a, b) : a, b \in 1..n} \ {{a} : a \in 1..n}

\* The worlds the solver is run on: complete graphs of 0..3 nodes and the
\* 3-node path 1 - 2 - 3, on which an ant that starts in the middle is stuck
\* after one move.
Worlds ==
    { [n |-> k, edges |-> Complete(k)] : k \in 0..3 }
      \cup { [n |-> 3, edges |-> {Edge(1, 2), Edge(2, 3)}] }

\* world.nodes, an ordered list
NodeList(w) == [j \in 1..w.n |-> j]

\* the immutable length of an edge
Length(e) ==
    CASE e = Edge(1, 2) -> 1
      [] e = Edge(1, 3) -> 2
      [] e = Edge(2, 3) -> 3

\* --------------------------------------------------------- parameters
\* rho, Q and t0 as exact rationals; Q is a common multiple of every tour
\* length of the worlds above, so Q / distance stays small; rho differs from
\* 1 - rho, so the two decays of the solver are told apart.
Rho == <<1, 4>>
QVal == RInt(60)
T0 == RInt(16)
EliteValues == {<<0, 1>>, <<1, 1>>}

VARIABLES
    world,        \* self.world: [n, edges]
    ant_count,    \* self.ant_count
    elite,        \* self.elite
    pheromone,    \* edge -> edge.pheromone
    mode,         \* the method the caller called: "solve", "solutions", or
                  \* "random_ants", "round_robin_ants", "find_solutions"
    limit,        \* its argument
    pc,           \* position in the running method
    i,            \* iterations completed (the loop variable of range(limit))
    ants,         \* the colony of the current iteration
    starts,       \* random_ants: the start nodes not drawn yet
    k,            \* find_solutions: index of the ant the for loop is at
    ants_done,    \* find_solutions: its counter
    local_best,   \* <<>> or <<ant>>
    global_best,  \* <<>> (None) or <<ant>>
    yielded,      \* solutions: the ants yielded so far
    result,       \* solve: <<>> or <<the value returned>>
    resets,       \* reset_pheromone() calls made by the caller after the run
    entry,        \* history: <<>> or <<pheromone and global_best as they were
                  \* when find_solutions was entered in this iteration>>
    hist          \* history: per iteration, what its best-ant step saw

vars == <<world, ant_count, elite, pheromone, mode, limit, pc, i, ants, starts,
          k, ants_done, local_best, global_best, yielded, result, resets,
          entry, hist>>

None == <<>>

\* ------------------------------------------------------------------ Ant
\* Ant(world, alpha, beta, start)
NewAnt(s) ==
    [start |-> s, node |-> s, visited |-> {s}, moves |-> <<>>, distance |-> 0]

\* the nodes an ant may move to: unvisited and adjacent to where it is
Candidates(w, a) ==
    {v \in (1..w.n) \ a.visited : Edge(a.node, v) \in w.edges}

can_move(w, a) == Candidates(w, a) # {}

\* the ant after moving to v (the move is the edge taken)
MoveTo(a, v) ==
    [a EXCEPT !.node = v,
              !.visited = @ \cup {v},
              !.moves = Append(@, Edge(a.node, v)),
              !.distance = @ + Length(Edge(a.node, v))]

\* Ant.__lt__: ants are ordered by distance
AntLt(a, b) == a.distance < b.distance

\* sorted(ants): stable, ascending
RECURSIVE Insert(_, _)
Insert(s, a) ==
    IF s = <<>> THEN <<a>>
    ELSE IF AntLt(a, s[Len(s)]) THEN Append(Insert(SubSeq(s, 1, Len(s) - 1), a), s[Len(s)])
    ELSE Append(s, a)

RECURSIVE Sorted(_)
Sorted(s) ==
    IF s = <<>> THEN <<>>
    ELSE Insert(Sorted(SubSeq(s, 1, Len(s) - 1)), s[Len(s)])

\* Ant.clone(): an independent copy, equal in every field
clone(a) == a

\* --------------------------------------------------------------- Solver
\* a reset that only lifts the edges below t0
reset_pheromone_floor(ph) == [e \in DOMAIN ph |-> RMax(T0, ph[e])]

\* reset_pheromone: every edge back to t0
reset_pheromone(ph) == [e \in DOMAIN ph |-> T0]

\* a round robin that stops after one ant per node
round_robin_once(w, count) ==
    [j \in 1..(IF count < w.n THEN count ELSE w.n) |-> NewAnt(NodeList(w)[j])]

\* round_robin_ants: one ant per index of range(ant_count), on nodes[i % n]
round_robin_ants(w, count) ==
    [j \in 1..count |-> NewAnt(NodeList(w)[((j - 1) % w.n) + 1])]

\* a pop that takes the head of the list, whatever r is
PopHead(s, r) == SubSeq(s, 2, Len(s))

\* starts.pop(r), r counted from 1
Pop(s, r) == SubSeq(s, 1, r - 1) \o SubSeq(s, r + 1, Len(s))

\* a local update that evaporates as the global update does: by 1 - rho
LocalDecayEvaporate(ph, m) == [ph EXCEPT ![m] = RMul(@, RSub(ROne, Rho))]

\* the local update of find_solutions: edges[m].pheromone *= rho
LocalDecay(ph, m) == [ph EXCEPT ![m] = RMul(@, Rho)]

\* the assignment of update_scent to one edge
Deposit(ph, m, p) ==
    [ph EXCEPT ![m] = RMax(T0, RAdd(RMul(RSub(ROne, Rho), @), p))]

\* for move in a.moves: ... , from the j-th move on
RECURSIVE DepositMoves(_, _, _, _)
DepositMoves(ph, ms, j, p) ==
    IF j > Len(ms) THEN ph
    ELSE DepositMoves(Deposit(ph, ms[j], p), ms, j + 1, p)

\* q / a.distance
QOver(d) == Norm(QVal[1], QVal[2] * d)

\* for a in ants: ... , from the j-th ant on
RECURSIVE DepositAnts(_, _, _)
DepositAnts(ph, as, j) ==
    IF j > Len(as) THEN ph
    ELSE DepositAnts(DepositMoves(ph, as[j].moves, 1, QOver(as[j].distance)), as, j + 1)

\* a better half that rounds up
BetterHalfRoundUp(as) == SubSeq(Sorted(as), 1, (Len(as) + 1) \div 2)

\* sorted(ants)[:len(ants) // 2]
BetterHalf(as) == SubSeq(Sorted(as), 1, Len(as) \div 2)

update_scent(ph, as) == DepositAnts(ph, BetterHalf(as), 1)

\* the first ant of the colony instead of the shortest
get_best_ant_first(as) == as[1]

\* get_best_ant, for a colony that is not empty
get_best_ant(as) == Sorted(as)[1]

\* a comparison that also replaces the best on a tie
ImprovesOrTies(lb, gb) == IF gb = None THEN TRUE ELSE ~AntLt(gb[1], lb)

\* a comparison that replaces the best in every iteration
ImprovesAlways(lb, gb) == TRUE

\* if global_best is None or local_best < global_best
Improves(lb, gb) == IF gb = None THEN TRUE ELSE AntLt(lb, gb[1])

\* the increment of trace_elite: elite * q / ant.distance
EliteAmount(el, d) == RMul(el, QOver(d))

RECURSIVE TraceMoves(_, _, _, _)
TraceMoves(ph, ms, j, amount) ==
    IF j > Len(ms) THEN ph
    ELSE TraceMoves([ph EXCEPT ![ms[j]] = RAdd(@, amount)], ms, j + 1, amount)

\* a number is truthy when it is not zero
Truthy(x) == x[1] # 0

trace_elite(ph, el, a) ==
    IF Truthy(el) /\ a.moves # <<>>
    THEN TraceMoves(ph, a.moves, 1, EliteAmount(el, a.distance))
    ELSE ph

\* ----------------------------------------------------------------- Init
\* The pheromone a world carries before a run is arbitrary.
PriorLevels == {T0, RInt(3), <<65, 2>>}

Init ==
    /\ world \in Worlds
    /\ ant_count \in 0..MaxAntCount
    /\ elite \in EliteValues
    /\ pheromone \in [world.edges -> PriorLevels]
    /\ mode \in {"solve", "solutions"}
    /\ limit \in 0..MaxLimit
    /\ pc = "start"
    /\ i = 0
    /\ ants = <<>>
    /\ starts = <<>>
    /\ k = 0
    /\ ants_done = 0
    /\ local_best = None
    /\ global_best = None
    /\ yielded = <<>>
    /\ result = <<>>
    /\ resets = 0
    /\ entry = <<>>
    /\ hist = <<>>

\* -------------------------------------------------------------- actions
\* What the iteration that has just chosen its best ant did (history only).
MinDistance(as) ==
    CHOOSE d \in {as[j].distance : j \in 1..Len(as)} :
        \A j \in 1..Len(as) : d <= as[j].distance

Entry(as, lb, gb, ys) ==
    [size |-> Len(as), min |-> MinDistance(as), local |-> lb.distance,
     best |-> gb.distance, yields |-> Len(ys)]

\* a loop that runs one iteration too many
InRangeInclusive(j, lim) == j <= lim

\* for i in range(limit): the loop goes on while i < limit
InRange(j, lim) == j < lim

\* solve: self.reset_pheromone(); global_best = None
solve_begin ==
    /\ pc = "start" /\ mode = "solve"
    /\ pheromone' = reset_pheromone(pheromone)
    /\ global_best' = None
    /\ pc' = "loop"
    /\ UNCHANGED <<world, ant_count, elite, mode, limit, i, ants, starts, k,
                   ants_done, local_best, yielded, result, hist, resets, entry>>

\* solutions: self.reset_pheromone(); global_best = None
solutions_begin ==
    /\ pc = "start" /\ mode = "solutions"
    /\ pheromone' = reset_pheromone(pheromone)
    /\ global_best' = None
    /\ pc' = "loop"
    /\ UNCHANGED <<world, ant_count, elite, mode, limit, i, ants, starts, k,
                   ants_done, local_best, yielded, result, hist, resets, entry>>

\* what find_solutions finds when it is entered (history only)
AtEntry == <<[ph |-> pheromone, best |-> global_best]>>

\* the colony of an iteration: round robin when ant_count < 1, else random
BuildColony ==
    IF ant_count < 1
    THEN /\ ants' = round_robin_ants(world, ant_count)
         /\ ants_done' = 0
         /\ pc' = "find_while"
         /\ entry' = AtEntry
         /\ UNCHANGED starts
    ELSE /\ starts' = NodeList(world)
         /\ ants' = <<>>
         /\ pc' = "random_ants"
         /\ UNCHANGED <<ants_done, entry>>

\* solve: for i in range(limit): ants = ...
solve_iterate ==
    /\ pc = "loop" /\ mode = "solve" /\ InRange(i, limit)
    /\ BuildColony
    /\ UNCHANGED <<world, ant_count, elite, pheromone, mode, limit, i, k,
                   local_best, global_best, yielded, result, hist, resets>>

\* solutions: for i in range(limit): ants = ...
solutions_iterate ==
    /\ pc = "loop" /\ mode = "solutions" /\ InRange(i, limit)
    /\ BuildColony
    /\ UNCHANGED <<world, ant_count, elite, pheromone, mode, limit, i, k,
                   local_best, global_best, yielded, result, hist, resets>>

\* random_ants, one turn of its while loop: draw a start and place an ant
random_ants_draw ==
    /\ pc = "random_ants"
    /\ ant_count > 0 /\ Len(starts) > 0
    /\ \E r \in 1..Len(starts) :
          /\ ants' = Append(ants, NewAnt(starts[r]))
          /\ starts' = Pop(starts, r)
    /\ UNCHANGED <<world, ant_count, elite, pheromone, mode, limit, pc, i, k,
                   ants_done, local_best, global_best, yielded, result, hist, resets, entry>>

\* random_ants: the loop condition fails, return ants; find_solutions begins
random_ants_return ==
    /\ pc = "random_ants"
    /\ ~(ant_count > 0 /\ Len(starts) > 0)
    /\ ants_done' = 0
    /\ pc' = "find_while"
    /\ entry' = AtEntry
    /\ UNCHANGED <<world, ant_count, elite, pheromone, mode, limit, i, ants,
                   starts, k, local_best, global_best, yielded, result, hist, resets>>

\* find_solutions: while ants_done < len(ants): ants_done = 0; for ant in ants
find_pass ==
    /\ pc = "find_while"
    /\ ants_done < Len(ants)
    /\ ants_done' = 0
    /\ k' = 1
    /\ pc' = "find_for"
    /\ UNCHANGED <<world, ant_count, elite, pheromone, mode, limit, i, ants,
                   starts, local_best, global_best, yielded, result, hist, resets, entry>>

\* find_solutions returns: every ant was done in the last pass
find_return ==
    /\ pc = "find_while"
    /\ ~(ants_done < Len(ants))
    /\ pc' = "update"
    /\ UNCHANGED <<world, ant_count, elite, pheromone, mode, limit, i, ants,
                   starts, k, ants_done, local_best, global_best, yielded,
                   result, hist, resets, entry>>

\* a pass that counts an ant that moved among those that are done
find_move_counts_done ==
    /\ pc = "find_for" /\ k <= Len(ants)
    /\ can_move(world, ants[k])
    /\ \E v \in Candidates(world, ants[k]) :
          /\ ants' = [ants EXCEPT ![k] = MoveTo(@, v)]
          /\ pheromone' = LocalDecay(pheromone, Edge(ants[k].node, v))
    /\ k' = k + 1
    /\ ants_done' = ants_done + 1
    /\ UNCHANGED <<world, ant_count, elite, mode, limit, pc, i, starts,
                   local_best, global_best, yielded, result, hist, resets, entry>>

\* a pass that stays with an ant for as long as it can move
find_move_stays ==
    /\ pc = "find_for" /\ k <= Len(ants)
    /\ can_move(world, ants[k])
    /\ \E v \in Candidates(world, ants[k]) :
          /\ ants' = [ants EXCEPT ![k] = MoveTo(@, v)]
          /\ pheromone' = LocalDecay(pheromone, Edge(ants[k].node, v))
    /\ UNCHANGED <<world, ant_count, elite, mode, limit, pc, i, starts, k,
                   ants_done, local_best, global_best, yielded, result, hist, resets, entry>>

\* find_solutions: the ant at hand can move: m = ant.move(), and the decay
find_move ==
    /\ pc = "find_for" /\ k <= Len(ants)
    /\ can_move(world, ants[k])
    /\ \E v \in Candidates(world, ants[k]) :
          /\ ants' = [ants EXCEPT ![k] = MoveTo(@, v)]
          /\ pheromone' = LocalDecay(pheromone, Edge(ants[k].node, v))
    /\ k' = k + 1
    /\ UNCHANGED <<world, ant_count, elite, mode, limit, pc, i, starts,
                   ants_done, local_best, global_best, yielded, result, hist, resets, entry>>

\* find_solutions: the ant at hand cannot move: ants_done += 1
find_done ==
    /\ pc = "find_for" /\ k <= Len(ants)
    /\ ~can_move(world, ants[k])
    /\ ants_done' = ants_done + 1
    /\ k' = k + 1
    /\ UNCHANGED <<world, ant_count, elite, pheromone, mode, limit, pc, i,
                   ants, starts, local_best, global_best, yielded, result, hist, resets, entry>>

\* find_solutions: the for loop is through the colony
find_pass_end ==
    /\ pc = "find_for" /\ k > Len(ants)
    /\ pc' = "find_while"
    /\ UNCHANGED <<world, ant_count, elite, pheromone, mode, limit, i, ants,
                   starts, k, ants_done, local_best, global_best, yielded,
                   result, hist, resets, entry>>

\* an iteration that forgets the global update
global_update_skip ==
    /\ pc = "update"
    /\ pc' = "best"
    /\ UNCHANGED <<world, ant_count, elite, pheromone, mode, limit, i, ants,
                   starts, k, ants_done, local_best, global_best, yielded,
                   result, hist, resets, entry>>

\* update_scent on a better half with an ant of distance 0:
\* p = self.q / a.distance raises ZeroDivisionError
ZeroDistance(as) ==
    \E j \in 1..Len(BetterHalf(as)) : BetterHalf(as)[j].distance = 0

\* self.update_scent(ants)
global_update ==
    /\ pc = "update"
    /\ ~ZeroDistance(ants)
    /\ pheromone' = update_scent(pheromone, ants)
    /\ pc' = "best"
    /\ UNCHANGED <<world, ant_count, elite, mode, limit, i, ants, starts, k,
                   ants_done, local_best, global_best, yielded, result, hist, resets, entry>>

\* an empty colony whose "best" is None, handed on as the answer
best_error_returns_none ==
    /\ pc = "best"
    /\ ants = <<>>
    /\ result' = <<None>>
    /\ pc' = "done"
    /\ UNCHANGED <<world, ant_count, elite, pheromone, mode, limit, i, ants,
                   starts, k, ants_done, local_best, global_best, yielded,
                   hist, resets, entry>>

\* get_best_ant on an empty colony: sorted([])[0] raises IndexError
best_error ==
    /\ pc = "best"
    /\ ants = <<>>
    /\ pc' = "error"
    /\ UNCHANGED <<world, ant_count, elite, pheromone, mode, limit, i, ants,
                   starts, k, ants_done, local_best, global_best, yielded,
                   result, hist, resets, entry>>

\* solve: local_best = ...; if ... < global_best: global_best = clone
solve_best ==
    /\ pc = "best" /\ mode = "solve"
    /\ ants # <<>>
    /\ LET lb == get_best_ant(ants)
           up == Improves(lb, global_best)
           gb == IF up THEN <<clone(lb)>> ELSE global_best
       IN  /\ local_best' = <<lb>>
           /\ global_best' = gb
           /\ hist' = Append(hist, Entry(ants, lb, gb[1], yielded))
    /\ pc' = "elite"
    /\ UNCHANGED <<world, ant_count, elite, pheromone, mode, limit, i, ants,
                   starts, k, ants_done, yielded, result, resets, entry>>

\* solutions: the same without an improvement
solutions_best_keep ==
    /\ pc = "best" /\ mode = "solutions"
    /\ ants # <<>>
    /\ LET lb == get_best_ant(ants)
       IN  /\ ~Improves(lb, global_best)
           /\ local_best' = <<lb>>
           /\ hist' = Append(hist, Entry(ants, lb, global_best[1], yielded))
    /\ pc' = "elite"
    /\ UNCHANGED <<world, ant_count, elite, pheromone, mode, limit, i, ants,
                   starts, k, ants_done, global_best, yielded, result, resets, entry>>

\* solutions: an improvement: global_best = clone; yield global_best
solutions_best_yield ==
    /\ pc = "best" /\ mode = "solutions"
    /\ ants # <<>>
    /\ LET lb == get_best_ant(ants)
       IN  /\ Improves(lb, global_best)
           /\ local_best' = <<lb>>
           /\ global_best' = <<clone(lb)>>
           /\ yielded' = Append(yielded, clone(lb))
           /\ hist' = Append(hist, Entry(ants, lb, lb, yielded'))
    /\ pc' = "yield"
    /\ UNCHANGED <<world, ant_count, elite, pheromone, mode, limit, i, ants,
                   starts, k, ants_done, result, resets, entry>>

\* solutions: the consumer asks for the next solution
solutions_resume ==
    /\ pc = "yield"
    /\ pc' = "elite"
    /\ UNCHANGED <<world, ant_count, elite, pheromone, mode, limit, i, ants,
                   starts, k, ants_done, local_best, global_best, yielded,
                   result, hist, resets, entry>>

\* an elite step that traces the iteration's best ant
EliteStepLocal ==
    /\ pheromone' = IF Truthy(elite)
                    THEN trace_elite(pheromone, elite, local_best[1])
                    ELSE pheromone
    /\ i' = i + 1
    /\ ants' = <<>>
    /\ local_best' = None
    /\ entry' = <<>>
    /\ pc' = "loop"

\* the end of an iteration's body; the colony and local_best are dropped
EliteStep ==
    /\ pheromone' = IF Truthy(elite)
                    THEN trace_elite(pheromone, elite, global_best[1])
                    ELSE pheromone
    /\ i' = i + 1
    /\ ants' = <<>>
    /\ local_best' = None
    /\ entry' = <<>>
    /\ pc' = "loop"

\* solve: if self.elite: self.trace_elite(global_best)
solve_elite ==
    /\ pc = "elite" /\ mode = "solve"
    /\ EliteStep
    /\ UNCHANGED <<world, ant_count, elite, mode, limit, starts, k, ants_done,
                   global_best, yielded, result, hist, resets>>

\* a generator that leaves the elite trace out
solutions_elite_skip ==
    /\ pc = "elite" /\ mode = "solutions"
    /\ i' = i + 1
    /\ ants' = <<>>
    /\ local_best' = None
    /\ entry' = <<>>
    /\ pc' = "loop"
    /\ UNCHANGED <<world, ant_count, elite, pheromone, mode, limit, starts, k,
                   ants_done, global_best, yielded, result, hist, resets>>

\* solutions: if self.elite: self.trace_elite(global_best)
solutions_elite ==
    /\ pc = "elite" /\ mode = "solutions"
    /\ EliteStep
    /\ UNCHANGED <<world, ant_count, elite, mode, limit, starts, k, ants_done,
                   global_best, yielded, result, hist, resets>>

\* solve: return global_best
solve_return ==
    /\ pc = "loop" /\ mode = "solve" /\ ~InRange(i, limit)
    /\ result' = <<global_best>>
    /\ pc' = "done"
    /\ UNCHANGED <<world, ant_count, elite, pheromone, mode, limit, i, ants,
                   starts, k, ants_done, local_best, global_best, yielded, hist, resets, entry>>

\* solutions: the generator is exhausted
solutions_end ==
    /\ pc = "loop" /\ mode = "solutions" /\ ~InRange(i, limit)
    /\ pc' = "done"
    /\ UNCHANGED <<world, ant_count, elite, pheromone, mode, limit, i, ants,
                   starts, k, ants_done, local_best, global_best, yielded,
                   result, hist, resets, entry>>

\* the caller calls reset_pheromone() itself, after a run has ended
reset_call ==
    /\ pc = "done"
    /\ resets < MaxResets
    /\ pheromone' = reset_pheromone(pheromone)
    /\ resets' = resets + 1
    /\ UNCHANGED <<world, ant_count, elite, mode, limit, pc, i, ants, starts, k,
                   ants_done, local_best, global_best, yielded, result, hist, entry>>

Next ==
    \/ solve_begin \/ solutions_begin
    \/ solve_iterate \/ solutions_iterate
    \/ random_ants_draw \/ random_ants_return
    \/ find_pass \/ find_move \/ find_done \/ find_pass_end \/ find_return
    \/ global_update
    \/ best_error
    \/ solve_best \/ solutions_best_keep \/ solutions_best_yield
    \/ solutions_resume
    \/ solve_elite \/ solutions_elite
    \/ solve_return \/ solutions_end
    \/ reset_call

Spec == Init /\ [][Next]_vars

\* ------------------------------------------- the methods called directly
\* Every colony of at most MaxColony fresh ants, on any nodes of the world.
Colonies(w) ==
    UNION {[1..m -> {NewAnt(s) : s \in 1..w.n}] : m \in 0..MaxColony}

\* The caller builds a colony with random_ants or round_robin_ants, or makes
\* one of its own, and hands it to find_solutions and then to update_scent.
InitCalls ==
    /\ world \in Worlds
    /\ elite = <<0, 1>>
    /\ \E level \in PriorLevels : pheromone = [e \in world.edges |-> level]
    /\ limit = 0
    /\ i = 0
    /\ k = 0
    /\ ants_done = 0
    /\ local_best = None
    /\ global_best = None
    /\ yielded = <<>>
    /\ result = <<>>
    /\ resets = 0
    /\ hist = <<>>
    /\ \/ /\ mode = "random_ants"
          /\ pc = "random_ants"
          /\ ant_count \in 0..MaxColony
          /\ starts = NodeList(world)
          /\ ants = <<>>
          /\ entry = <<>>
       \/ /\ mode = "round_robin_ants"
          /\ pc = "round_robin"
          /\ ant_count \in 0..MaxColony
          /\ starts = <<>>
          /\ ants = <<>>
          /\ entry = <<>>
       \/ /\ mode = "find_solutions"
          /\ pc = "find_while"
          /\ ant_count = 0
          /\ starts = <<>>
          /\ ants \in Colonies(world)
          /\ entry = AtEntry

\* round_robin_ants called with ant_count = k
call_round_robin ==
    /\ pc = "round_robin"
    /\ ~(world.n = 0 /\ ant_count > 0)
    /\ ants' = round_robin_ants(world, ant_count)
    /\ ants_done' = 0
    /\ entry' = AtEntry
    /\ pc' = "find_while"
    /\ UNCHANGED <<world, ant_count, elite, pheromone, mode, limit, i, starts,
                   k, local_best, global_best, yielded, result, hist, resets>>

\* round_robin_ants on a world without nodes: i % n raises ZeroDivisionError
round_robin_error ==
    /\ pc = "round_robin"
    /\ world.n = 0 /\ ant_count > 0
    /\ pc' = "error"
    /\ UNCHANGED <<world, ant_count, elite, pheromone, mode, limit, i, ants,
                   starts, k, ants_done, local_best, global_best, yielded,
                   result, hist, resets, entry>>

\* update_scent: the division by a distance of zero
update_error ==
    /\ pc = "update"
    /\ ZeroDistance(ants)
    /\ pc' = "error"
    /\ UNCHANGED <<world, ant_count, elite, pheromone, mode, limit, i, ants,
                   starts, k, ants_done, local_best, global_best, yielded,
                   result, hist, resets, entry>>

NextCalls ==
    \/ random_ants_draw \/ random_ants_return
    \/ call_round_robin \/ round_robin_error
    \/ find_pass \/ find_move \/ find_done \/ find_pass_end \/ find_return
    \/ global_update \/ update_error

\* the steps of the two colony builders, and those of find_solutions
ColonySteps ==
    \/ random_ants_draw \/ random_ants_return
    \/ call_round_robin \/ round_robin_error

FindSteps ==
    \/ find_pass \/ find_move \/ find_done \/ find_pass_end \/ find_return

\* A call that has begun runs on: nothing else is scheduled, so the loops of
\* the colony builders and of find_solutions are never left half way.
Calls == InitCalls /\ [][NextCalls]_vars /\ WF_vars(ColonySteps \/ FindSteps)

\* =============================================================== claims
AllAtLeastT0 == \A e \in world.edges : RLe(T0, pheromone[e])

Min2(a, b) == IF a <= b THEN a ELSE b

\* the smallest of the per-iteration shortest distances of iterations 1..n
RECURSIVE MinOfMins(_, _)
MinOfMins(h, n) ==
    IF n = 1 THEN h[1].min ELSE Min2(MinOfMins(h, n - 1), h[n].min)

\* how many solutions iteration j yielded
YieldsIn(h, j) == h[j].yields - (IF j = 1 THEN 0 ELSE h[j - 1].yields)

\* how often edge e occurs in the moves ms
Occurrences(ms, e) == Cardinality({j \in 1..Len(ms) : ms[j] = e})

\* C1: in every state after the initial reset_pheromone, the states inside
\* find_solutions included, every edge's pheromone is at least t0.
C1_NeverBelowT0 == pc # "start" => AllAtLeastT0

\* C2: at the end of every complete iteration (update_scent and the elite
\* trace done) every edge's pheromone is at least t0.
C2_FloorAfterIteration == (pc = "loop" /\ i >= 1) => AllAtLeastT0

\* C3: solve(limit), limit >= 1, with non-empty colonies performs exactly
\* limit iterations and returns an ant whose distance is the minimum over all
\* iterations of the shortest distance in the iteration's colony.
C3_SolveReturnsMinimum ==
    (pc = "done" /\ mode = "solve" /\ limit >= 1) =>
        /\ i = limit
        /\ Len(hist) = limit
        /\ \A j \in 1..Len(hist) : hist[j].size >= 1
        /\ result # <<>>
        /\ result[1] # None
        /\ result[1][1].distance = MinOfMins(hist, limit)

C3_Witness ==
    /\ pc = "done" /\ mode = "solve"
    /\ Len(hist) >= 2
    /\ hist[2].min < hist[1].min

\* C4: the distances yielded by solutions(limit) are strictly decreasing, and
\* an iteration yields exactly when its shortest ant is strictly shorter than
\* the best of all earlier iterations, or it is the first iteration.
C4_YieldsStrictlyDecreasing ==
    mode = "solutions" =>
        /\ \A a, b \in 1..Len(yielded) :
              a < b => yielded[b].distance < yielded[a].distance
        /\ \A j \in 1..Len(hist) :
              /\ YieldsIn(hist, j) \in {0, 1}
              /\ YieldsIn(hist, j) = 1 <=>
                    (j = 1 \/ hist[j].min < MinOfMins(hist, j - 1))
              /\ YieldsIn(hist, j) = 1 =>
                    yielded[hist[j].yields].distance = hist[j].min
        /\ Len(hist) >= 1 => Len(yielded) >= hist[Len(hist)].yields

C4_Witness ==
    /\ mode = "solutions"
    /\ Len(yielded) >= 2
    /\ Len(hist) >= 2

\* C5: solutions(limit) consumed to the end with non-empty colonies yields at
\* least 1 and at most limit solutions, and the first iteration yields.
C5_YieldCount ==
    mode = "solutions" =>
        /\ Len(hist) >= 1 => hist[1].yields = 1
        /\ (pc = "done" /\ limit >= 1) =>
              (1 <= Len(yielded) /\ Len(yielded) <= limit)

C5_Witness ==
    /\ mode = "solutions" /\ pc = "done"
    /\ limit >= 2
    /\ Len(yielded) = 1

\* C6: with ant_count >= 1 the colony built by random_ants holds at most
\* min(ant_count, n) ants.
C6_ColonyAtMostAntCount ==
    (ant_count >= 1 /\ pc = "find_while") =>
        Len(ants) <= Min2(ant_count, world.n)

\* C7: with ant_count = 0 the colony of an iteration holds exactly n ants, the
\* j-th on the j-th node.
C7_ZeroMeansOnePerNode ==
    (ant_count = 0 /\ pc = "find_while") =>
        /\ Len(ants) = world.n
        /\ \A j \in 1..Len(ants) : ants[j].start = NodeList(world)[j]

\* C8: the elite step of an iteration adds elite*q/distance, per occurrence,
\* to every edge of the global best ant's tour (a strict increase when
\* elite > 0), to the global best and not to the iteration's best, and leaves
\* every other edge as it was; with elite = 0 it changes no edge.
C8_EliteTrace ==
    [][pc = "elite" =>
        LET gb == global_best[1]
            amount == Norm(elite[1] * QVal[1], elite[2] * QVal[2] * gb.distance)
        IN  \A e \in world.edges :
              IF Truthy(elite) /\ Occurrences(gb.moves, e) > 0
              THEN /\ RLt(pheromone[e], pheromone'[e])
                   /\ pheromone'[e] =
                        RAdd(pheromone[e],
                             RMul(RInt(Occurrences(gb.moves, e)), amount))
              ELSE pheromone'[e] = pheromone[e]]_vars

C8_Witness ==
    /\ pc = "loop" /\ i >= 2
    /\ Truthy(elite)
    /\ hist[i].local > hist[i].best
    /\ \E e \in world.edges : RLt(T0, pheromone[e])

\* C9: the best distance after L2 iterations is at most the best distance
\* after L1 <= L2 iterations of the same run (what solve(L1) returns when
\* every random choice falls the same way), it changes only on a strict
\* improvement, and solve returns the best of its last iteration.
C9_BestNeverWorse ==
    /\ \A a, b \in 1..Len(hist) : a <= b => hist[b].best <= hist[a].best
    /\ \A j \in 2..Len(hist) :
          hist[j].best # hist[j - 1].best =>
              (hist[j].min < hist[j - 1].best /\ hist[j].best = hist[j].min)
    /\ (pc = "done" /\ mode = "solve" /\ limit >= 1) =>
          result[1][1].distance = hist[limit].best

C9_Witness ==
    /\ pc = "done" /\ mode = "solve"
    /\ Len(hist) >= 2
    /\ hist[2].min > hist[1].best

\* C10: reset_pheromone sets every edge to exactly t0 whatever the levels
\* were, changes nothing else, and a second call changes nothing.
C10_ResetPheromone ==
    [][/\ pc = "start" => \A e \in world.edges : pheromone'[e] = T0
       /\ resets' # resets =>
            /\ DOMAIN pheromone' = world.edges
            /\ \A e \in world.edges : pheromone'[e] = T0
            /\ resets >= 1 => pheromone' = pheromone
            /\ UNCHANGED <<world, ant_count, elite, mode, limit, pc, i, ants,
                           starts, k, ants_done, local_best, global_best,
                           yielded, result, hist, entry>>]_vars

C10_Witness ==
    /\ resets = 2
    /\ i >= 1
    /\ world.edges # {}
    /\ \A e \in world.edges : pheromone[e] = T0

\* a configuration whose colonies are empty
EmptyColonies == ant_count < 1 \/ world.n = 0

\* C11: when the colony of an iteration is empty, solve and solutions end in
\* an error in that iteration: nothing is returned or yielded, None included.
C11_EmptyColonyIsError ==
    /\ pc = "error" =>
          (ants = <<>> /\ Len(hist) = i /\ result = <<>>)
    /\ pc \in {"yield", "elite"} => ants # <<>>
    /\ \A j \in 1..Len(hist) : hist[j].size >= 1
    /\ (EmptyColonies /\ limit >= 1 /\ pc \notin {"start", "loop"}) =>
          /\ pc \in {"random_ants", "find_while", "find_for", "update",
                    "best", "error"}
          /\ i = 0
    /\ (EmptyColonies /\ limit >= 1) =>
          (result = <<>> /\ yielded = <<>> /\ global_best = None)

C11_Witness ==
    /\ pc = "error"
    /\ ant_count < 1
    /\ world.n >= 1
    /\ limit >= 1

\* an ant that has visited every node of the world
Complete_Tour(a) == a.visited = 1..world.n

\* C12: an iteration in which no ant completed a tour fails instead of
\* choosing an incomplete ant, so every ant that solve returns or solutions
\* yields is a complete tour over all nodes.
C12_OnlyCompleteTours ==
    /\ pc \in {"yield", "elite"} =>
          \E j \in 1..Len(ants) : Complete_Tour(ants[j])
    /\ \A j \in 1..Len(yielded) : Complete_Tour(yielded[j])
    /\ (result # <<>> /\ result[1] # None) => Complete_Tour(result[1][1])

\* how often the ants as[1..n] traversed edge e
RECURSIVE Traversals(_, _, _)
Traversals(as, n, e) ==
    IF n = 0 THEN 0
    ELSE Traversals(as, n - 1, e) + Occurrences(as[n].moves, e)

RECURSIVE RhoPow(_)
RhoPow(n) == IF n = 0 THEN ROne ELSE RMul(Rho, RhoPow(n - 1))

\* the levels ph after the colony as has decayed every edge it traversed
AfterFind(ph, as) ==
    [e \in DOMAIN ph |-> RMul(ph[e], RhoPow(Traversals(as, Len(as), e)))]

\* C13 as stated: at a yield the pheromone reflects whole iterations only,
\* the elite trace of the yielding iteration included.
C13_YieldAfterWholeIteration ==
    pc = "yield" =>
        pheromone = trace_elite(update_scent(AfterFind(entry[1].ph, ants), ants),
                                elite, global_best[1])

\* C13, amended: at a yield every earlier iteration is whole, and of the
\* yielding iteration the tours with their local decay, the global update and
\* the best tracking are done, but not its elite trace, which runs only once
\* the consumer resumes the generator.
C13_YieldBeforeEliteTrace ==
    pc = "yield" =>
        /\ mode = "solutions"
        /\ Len(hist) = i + 1
        /\ \A j \in 1..Len(ants) : ~can_move(world, ants[j])
        /\ pheromone = update_scent(AfterFind(entry[1].ph, ants), ants)
        /\ global_best = <<yielded[Len(yielded)]>>
        /\ global_best[1].distance = MinDistance(ants)

C13_Witness ==
    /\ pc = "yield"
    /\ i >= 1
    /\ Truthy(elite)
    /\ global_best[1].moves # <<>>
    /\ pheromone # trace_elite(pheromone, elite, global_best[1])

\* ant a of the colony comes before ant b in ascending distance order, ties
\* in input order
Before(as, a, b) ==
    \/ as[a].distance < as[b].distance
    \/ (as[a].distance = as[b].distance /\ a < b)

\* how many ants of the colony come before ant j
Rank(as, j) == Cardinality({m \in 1..Len(as) : Before(as, m, j)})

\* the ants that update_scent is to process: the len(ants) // 2 first
Processed(as) == {j \in 1..Len(as) : Rank(as, j) < Len(as) \div 2}

\* p after n assignments p := max(t0, (1 - rho) * p + amount)
RECURSIVE Assigned(_, _, _)
Assigned(p, n, amount) ==
    IF n = 0 THEN p
    ELSE Assigned(RMax(T0, RAdd(RMul(RSub(ROne, Rho), p), amount)), n - 1, amount)

\* the level of edge e once the ants of rank r, r + 1, ... have deposited
RECURSIVE EdgeAfter(_, _, _, _)
EdgeAfter(p, as, e, r) ==
    IF r >= Len(as) \div 2 THEN p
    ELSE LET j == CHOOSE m \in 1..Len(as) : Rank(as, m) = r
         IN  EdgeAfter(Assigned(p, Occurrences(as[j].moves, e),
                                Norm(QVal[1], QVal[2] * as[j].distance)),
                       as, e, r + 1)

\* C14: update_scent processes exactly the len(ants) // 2 shortest ants in
\* ascending distance order (ties in input order) and for each of their moves
\* in order sets the edge to max(t0, (1 - rho) * p + q / distance); an edge
\* none of them traversed keeps its level, so one ant alone changes nothing.
C14_UpdateScent ==
    [][pc = "update" =>
        /\ \A e \in world.edges :
              pheromone'[e] = EdgeAfter(pheromone[e], ants, e, 0)
        /\ \A e \in world.edges :
              (\A j \in Processed(ants) : Occurrences(ants[j].moves, e) = 0)
                  => pheromone'[e] = pheromone[e]
        /\ Len(ants) = 1 => pheromone' = pheromone]_vars

\* four ants were handed over; the two processed ones share an edge, the
\* second of them ties with an ant that is left out, and an edge that only
\* the others traversed is below t0
C14_Witness ==
    /\ pc = "best" /\ mode = "find_solutions"
    /\ Len(ants) = 4
    /\ \E a, b \in Processed(ants) :
          /\ a # b
          /\ \E e \in world.edges :
                Occurrences(ants[a].moves, e) > 0 /\ Occurrences(ants[b].moves, e) > 0
    /\ \E a \in Processed(ants), b \in (1..4) \ Processed(ants) :
          ants[a].distance = ants[b].distance
    /\ \E e \in world.edges : RLt(pheromone[e], T0)

\* one step of find_solutions: a move decays the edge it traversed, and
\* nothing else; the returning step leaves the product of the decays
FindStep ==
    /\ Len(ants') = Len(ants)
    /\ IF ants' # ants
       THEN \E j \in 1..Len(ants), m \in world.edges :
               /\ ants'[j].moves = Append(ants[j].moves, m)
               /\ \A o \in 1..Len(ants) : o # j => ants'[o] = ants[o]
               /\ pheromone'[m] = RMul(pheromone[m], Rho)
               /\ \A e \in world.edges : e # m => pheromone'[e] = pheromone[e]
       ELSE pheromone' = pheromone
    /\ (pc' = "update") => (pheromone' = AfterFind(entry[1].ph, ants'))

\* C15: in find_solutions every move multiplies the pheromone of the edge it
\* traversed by rho, once, in the same step as the move, and changes no other
\* edge; a step without a move changes no pheromone; when find_solutions
\* returns, every edge is at its entry level times rho^(times traversed).
C15_LocalDecay == [][(pc \in {"find_while", "find_for"}) => FindStep]_vars

\* find_solutions has returned; one edge was traversed twice or more, and
\* another not at all
C15_Witness ==
    /\ pc = "update"
    /\ \E e \in world.edges : Traversals(ants, Len(ants), e) >= 2
    /\ \E e \in world.edges :
          /\ Traversals(ants, Len(ants), e) = 0
          /\ pheromone[e] = entry[1].ph[e]

\* find_solutions is running
InFind == pc \in {"find_while", "find_for"}

\* no ant of the colony can move
AllStuck == \A j \in 1..Len(ants) : ~can_move(world, ants[j])

\* C16: find_solutions, begun on any colony, returns, and when it has
\* returned no ant of the colony can move.
C16_FindTerminates ==
    /\ [](pc = "update" => AllStuck)
    /\ InFind ~> (pc = "update")

\* find_solutions has returned on a colony of which one ant was stuck a whole
\* pass before another
C16_Witness ==
    /\ pc = "update" /\ mode = "find_solutions"
    /\ AllStuck
    /\ \E a, b \in 1..Len(ants) :
          Len(ants[a].moves) = 1 /\ Len(ants[b].moves) = 2

\* the start nodes of a colony, in colony order
StartsOf(as) == [j \in 1..Len(as) |-> as[j].start]

\* no element twice
Distinct(s) == \A a, b \in 1..Len(s) : a # b => s[a] # s[b]

\* C17: random_ants draws the start nodes without replacement: the starts
\* handed out and the starts left are together the node list, each node once,
\* so no two ants of the colony share a start; and its loop ends.
C17_RandomAnts ==
    /\ [](mode = "random_ants" =>
            /\ Distinct(StartsOf(ants))
            /\ pc = "random_ants" =>
                  /\ Distinct(StartsOf(ants) \o starts)
                  /\ {(StartsOf(ants) \o starts)[j] :
                          j \in 1..(Len(ants) + Len(starts))} = 1..world.n)
    /\ (pc = "random_ants") ~> (pc # "random_ants")

\* random_ants has returned a colony for an ant_count above the node count,
\* and its first ant is not on the first node
C17_Witness ==
    /\ mode = "random_ants" /\ pc = "find_while"
    /\ ant_count > world.n
    /\ Len(ants) = 3
    /\ ants[1].start # NodeList(world)[1]

\* C18: round_robin_ants with ant_count = k on a world of n >= 1 nodes
\* returns k ants, the i-th (from 0) starting on nodes[i mod n]; for k = n
\* every node is the start of exactly one ant.
C18_RoundRobin ==
    (mode = "round_robin_ants" /\ pc # "round_robin" /\ world.n >= 1) =>
        /\ Len(ants) = ant_count
        /\ \A c \in 0..(ant_count - 1) :
              ants[c + 1].start = NodeList(world)[(c % world.n) + 1]
        /\ ant_count = world.n =>
              \A v \in 1..world.n :
                  Cardinality({j \in 1..Len(ants) : ants[j].start = v}) = 1

\* round_robin_ants has returned more ants than there are nodes: the fourth
\* ant is back on the first node
C18_Witness ==
    /\ mode = "round_robin_ants" /\ pc = "find_while"
    /\ world.n = 3 /\ ant_count = 4
    /\ Len(ants) = 4
    /\ ants[4].start = NodeList(world)[1]

\* the first ant of a colony among those of the least distance
FirstMin(as) ==
    as[CHOOSE j \in 1..Len(as) :
          /\ as[j].distance = MinDistance(as)
          /\ \A m \in 1..(j - 1) : as[m].distance > MinDistance(as)]

\* the best ant after an iteration with colony as, gb being the one before
NewBest(gb, as) ==
    IF gb = None THEN <<FirstMin(as)>>
    ELSE IF FirstMin(as).distance < gb[1].distance THEN <<FirstMin(as)>>
    ELSE gb

\* the pheromone after an iteration that began with ph, ran the tours of as
\* and ended with the best ant gb
NewPheromone(ph, as, gb) ==
    IF Truthy(elite)
    THEN trace_elite(update_scent(AfterFind(ph, as), as), elite, gb[1])
    ELSE update_scent(AfterFind(ph, as), as)

\* the steps that begin a run and end an iteration, written without the mode
SameStep ==
    /\ (pc = "start" /\ pc' = "loop") =>
          /\ pheromone' = reset_pheromone(pheromone)
          /\ global_best' = None
          /\ i' = 0
    /\ pc = "elite" =>
          /\ global_best = NewBest(entry[1].best, ants)
          /\ global_best' = global_best
          /\ pheromone' = NewPheromone(entry[1].ph, ants, global_best)
          /\ i' = i + 1
    /\ pc' = "done" => i' = limit

\* C19: solve and solutions run the same iterations: in both, a run begins
\* with the reset, and every iteration takes the pheromone and the best ant
\* it found at its entry to the same new pheromone and best ant, a function
\* of the colony's tours alone; after limit >= 1 iterations solve returns
\* the best ant and the last ant solutions yielded is that same ant.
C19_SameStateMachine ==
    /\ [][SameStep]_vars
    /\ []((pc = "done" /\ limit >= 1) =>
             /\ global_best # None
             /\ IF mode = "solve"
                THEN result = <<global_best>>
                ELSE /\ yielded # <<>>
                     /\ yielded[Len(yielded)].moves = global_best[1].moves
                     /\ yielded[Len(yielded)].distance = global_best[1].distance)

\* a consumed solutions(2) with elite tracing: the second iteration's best
\* ant was no improvement, so the last ant yielded is the first iteration's
C19_Witness ==
    /\ pc = "done" /\ mode = "solutions"
    /\ limit = 2 /\ Truthy(elite)
    /\ Len(yielded) = 1
    /\ Len(hist) = 2
    /\ hist[2].local > hist[1].local

\* the number of moves ant j has made
Moves(j) == Len(ants[j].moves)

\* ant j can still move
Movable(j) == can_move(world, ants[j])

\* p passes are complete and the ants before index t have had their turn in
\* the next one: an ant is at the count of its last turn, or fell out earlier
InPass(p, t) ==
    \A j \in 1..Len(ants) :
        IF j < t
        THEN Moves(j) = p + 1 \/ (Moves(j) <= p /\ ~Movable(j))
        ELSE Moves(j) = p \/ (Moves(j) < p /\ ~Movable(j))

\* the ant that moves in a step is not ahead of any ant that can still move
MoveInTurn ==
    \A j \in 1..Len(ants) :
        (Len(ants') = Len(ants) /\ ants'[j] # ants[j]) =>
            /\ Len(ants'[j].moves) = Moves(j) + 1
            /\ \A o \in 1..Len(ants) :
                  Movable(o) =>
                      IF o < j THEN Moves(o) = Moves(j) + 1
                      ELSE Moves(o) = Moves(j)

\* C20: find_solutions moves the ants in passes, in colony order: in each
\* pass every ant that can move makes exactly one move, so two ants that can
\* both still move are never more than one move apart, and an ant makes its
\* next move only when every other movable ant has made as many as it has.
C20_LockStep ==
    /\ [](InFind =>
            /\ \E p \in 0..world.n :
                  InPass(p, IF pc = "find_for" THEN k ELSE 1)
            /\ \A a, b \in 1..Len(ants) :
                  (Movable(a) /\ Movable(b)) =>
                      /\ Moves(a) - Moves(b) <= 1
                      /\ (a < b) => Moves(a) >= Moves(b))
    /\ [][InFind => MoveInTurn]_vars

\* in the second pass the first ant has had its turn, the second has not and
\* can move, and a later ant fell out a move earlier
C20_Witness ==
    /\ pc = "find_for" /\ k = 2
    /\ Len(ants) >= 3
    /\ Moves(1) = 2
    /\ Moves(2) = 1 /\ Movable(2)
    /\ \E j \in 3..Len(ants) : Moves(j) = 1 /\ ~Movable(j)

====
